---- MODULE Spec2Model ----
(***************************************************************************)
(* State-machine model of the persistence and checkpoint layer of the      *)
(* fmit glossary crawler (src/crawler.py): the numbered JSON shard files,  *)
(* the parquet duplicate index, the page checkpoint, and run_once, the     *)
(* controller that drives them.                                            *)
(*                                                                         *)
(* Files are modelled by their parsed content and their size in bytes.     *)
(* Sizes are exact for ASCII records (json.dump with indent=2); the size   *)
(* ceiling, the page range, the pages per run, the batch size and the      *)
(* small-index threshold are the program's constants at a reduced scale,   *)
(* so that a handful of records fills a shard.                             *)
(***************************************************************************)
EXTENDS Integers, Sequences, FiniteSets, TLC

\* ------------------------------------------------------------------------
\* Program constants
\* ------------------------------------------------------------------------

\* crawler.py:34  START_PAGE = 6019
START_PAGE == 6019

\* crawler.py:659  max_retries: int = 3
max_retries == 3

\* ------------------------------------------------------------------------
\* Bounds of the model
\* ------------------------------------------------------------------------

\* the longest list of records in a file given to merge_json_files
MaxMergeLen == 2

\* the last page of the crawl; crawler.py:35 has MAX_PAGES = 7185, the model
\* crawls START_PAGE .. MAX_PAGES with the range cut to three pages
MAX_PAGES == 6021

\* the size ceiling of a shard in bytes; crawler.py:31 has 95 MB
\* (MAX_JSON_FILE_SIZE_MB, compared with size / 1024 / 1024), the model a
\* ceiling that two short records stay under and three records reach
MAX_JSON_FILE_SIZE == 160

\* pages of one run; crawler.py:772 has PAGES_PER_RUN = 10
PAGES_PER_RUN == 2

\* records buffered before a flush; crawler.py:883 has batch_size = 20
batch_size == 2

\* rows under which the index counts as small; crawler.py:378 has len(df) < 100
SMALL_INDEX == 2

\* highest shard number a run of the model may create
MaxShardNo == 3

\* longest row list handed to append_to_files by a direct call
MaxRows == 2

\* most bytes of a dump that reach the file before the process stops
MaxTornBytes == 1

\* ------------------------------------------------------------------------
\* Records and files
\* ------------------------------------------------------------------------

\* the entry urls the site can serve
Urls == {"a", "b", "c"}

Rec(u, a, b, c) == [url |-> u, h1 |-> a, h2 |-> b, content |-> c]

\* the element of a set of one element; {F(x) : x \in {e}} has e evaluated
\* once, as a statement of the code evaluates its right-hand side once
TheOne(S) == CHOOSE x \in S : TRUE

Max(a, b) == IF a >= b THEN a ELSE b

Min(a, b) == IF a <= b THEN a ELSE b

MaxOf(S) == CHOOSE m \in S : \A n \in S : n <= m

Range(s) == {s[i] : i \in 1..Len(s)}

UrlSet(s) == {s[i].url : i \in 1..Len(s)}

\* bytes of one record inside json.dumps(list, ensure_ascii=False, indent=2):
\* the four key lines, the braces and the separator take 70 bytes
RecBytes(r) == 70 + Len(r.url) + Len(r.h1) + Len(r.h2) + Len(r.content)

RECURSIVE SumBytes(_)
SumBytes(s) == IF s = <<>> THEN 0 ELSE RecBytes(Head(s)) + SumBytes(Tail(s))

\* len(json.dumps(data, ensure_ascii=False, indent=2).encode('utf-8')); "[]" is 2 bytes
JsonSize(s) == 2 + SumBytes(s)

\* a path that does not exist
Absent == [exists |-> FALSE, ok |-> FALSE, data |-> <<>>, size |-> 0]

\* the file json.dump(data, f, ensure_ascii=False, indent=2) leaves
JsonFile(s) == [exists |-> TRUE, ok |-> TRUE, data |-> s, size |-> JsonSize(s)]

\* a file opened with "w" whose dump did not complete: n bytes, not parseable
TornFile(n) == [exists |-> TRUE, ok |-> FALSE, data |-> <<>>, size |-> n]

\* json.load of a shard followed by isinstance(data, list); a file that does
\* not parse raises, and every reader catches that and goes on without it
ReadList(f) == IF f.exists /\ f.ok THEN f.data ELSE <<>>

ShardNos == 1..(MaxShardNo + 1)

NoShards == [n \in ShardNos |-> Absent]

NoParquet == [exists |-> FALSE, ok |-> FALSE, rows |-> <<>>]

\* the checkpoint file: ok says that json.load gives an object, has_page that
\* the object has the key last_page, is_int that int() accepts its value
CheckpointFile(exists, ok, has_page, is_int, last_page) ==
    [exists |-> exists, ok |-> ok, has_page |-> has_page, is_int |-> is_int,
     last_page |-> last_page]

NoCheckpoint == CheckpointFile(FALSE, FALSE, FALSE, FALSE, 0)

\* the data directory: json[n] is fmit_data_00n.json, old is fmit_data.json
EmptyDir == [json |-> NoShards, parquet |-> NoParquet, ckpt |-> NoCheckpoint, old |-> Absent]

\* sorted(glob.glob(OUTPUT_JSON_PATTERN)), as the set of shard numbers
GlobJson(fs) == {n \in ShardNos : fs.json[n].exists}

\* the records of the shards in files, in file order
RECURSIVE ReadAll(_, _, _)
ReadAll(fs, files, n) ==
    IF n > MaxShardNo + 1 THEN <<>>
    ELSE (IF n \in files THEN ReadList(fs.json[n]) ELSE <<>>) \o ReadAll(fs, files, n + 1)

\* every record of every readable shard
StoreRecords(fs) == ReadAll(fs, GlobJson(fs), 1)

\* ------------------------------------------------------------------------
\* Checkpoint
\* ------------------------------------------------------------------------

\* load_page_checkpoint without the max of line 315
load_page_checkpoint_unclamped(fs) ==
    IF ~fs.ckpt.exists THEN START_PAGE - 1
    ELSE IF ~fs.ckpt.ok THEN START_PAGE - 1
    ELSE IF ~fs.ckpt.has_page THEN START_PAGE - 1
    ELSE IF ~fs.ckpt.is_int THEN START_PAGE - 1
    ELSE fs.ckpt.last_page

\* load_page_checkpoint: an absent file gives START_PAGE - 1 (line 310); a
\* file json.load does not turn into an object, and a last_page int() does
\* not accept, raise inside the try and give START_PAGE - 1 (line 317); a
\* missing key takes the default START_PAGE - 1 (line 313); a stored page
\* below START_PAGE - 1 is reported as START_PAGE - 1 (line 315)
load_page_checkpoint(fs) ==
    IF ~fs.ckpt.exists THEN START_PAGE - 1
    ELSE IF ~fs.ckpt.ok THEN START_PAGE - 1
    ELSE IF ~fs.ckpt.has_page THEN Max(START_PAGE - 1, START_PAGE - 1)
    ELSE IF ~fs.ckpt.is_int THEN START_PAGE - 1
    ELSE Max(fs.ckpt.last_page, START_PAGE - 1)

\* save_page_checkpoint dumping the page under another key than last_page
save_page_checkpoint_other_key(fs, page) ==
    [fs EXCEPT !.ckpt = CheckpointFile(TRUE, TRUE, FALSE, FALSE, 0)]

\* save_page_checkpoint: open(PAGE_CHECKPOINT, "w") and
\* json.dump({"last_page": page}), both completed
save_page_checkpoint(fs, page) ==
    [fs EXCEPT !.ckpt = CheckpointFile(TRUE, TRUE, TRUE, TRUE, page)]

\* save_page_checkpoint cut short after open(PAGE_CHECKPOINT, "w") truncated
\* the file and before json.dump wrote the object
save_page_checkpoint_torn(fs) ==
    [fs EXCEPT !.ckpt = CheckpointFile(TRUE, FALSE, FALSE, FALSE, 0)]

\* ------------------------------------------------------------------------
\* Duplicate index (parquet)
\* ------------------------------------------------------------------------

\* read_parquet_df: the rows of the file; a missing or unreadable file gives
\* an empty frame with the four columns
read_parquet_df(fs) == IF fs.parquet.exists /\ fs.parquet.ok THEN fs.parquet.rows ELSE <<>>

\* write_parquet_df: the whole file is replaced by the frame
write_parquet_df(fs, df) == [fs EXCEPT !.parquet = [exists |-> TRUE, ok |-> TRUE, rows |-> df]]

\* rebuild_parquet_from_json: returns without writing when there is no shard
\* file and when the readable shards hold no record
rebuild_parquet_from_json(fs) ==
    LET all_json_files == GlobJson(fs)
        all_records == ReadAll(fs, all_json_files, 1)
    IN  IF all_json_files = {} THEN fs
        ELSE IF all_records # <<>> THEN write_parquet_df(fs, all_records)
        ELSE fs

\* df.empty or len(df) < 100
LooksSmall(df) == df = <<>> \/ Len(df) < SMALL_INDEX

\* load_processed_urls, the files it leaves
load_processed_urls_fs(fs) ==
    IF LooksSmall(read_parquet_df(fs)) THEN rebuild_parquet_from_json(fs) ELSE fs

\* load_processed_urls, the set it returns: set(df["url"].dropna().astype(str))
load_processed_urls(fs) == UrlSet(read_parquet_df(load_processed_urls_fs(fs)))

\* ------------------------------------------------------------------------
\* Shard files
\* ------------------------------------------------------------------------

\* get_current_json_file: 1 when no shard exists, the latest shard while its
\* size on disk is under the ceiling, the next number otherwise
get_current_json_file(fs) ==
    LET existing_files == GlobJson(fs)
    IN  IF existing_files = {} THEN 1
        ELSE LET latest_file == MaxOf(existing_files)
             IN  IF fs.json[latest_file].size >= MAX_JSON_FILE_SIZE
                 THEN latest_file + 1
                 ELSE latest_file

\* migrate_old_json_file: a non-empty list in fmit_data.json is dumped to
\* fmit_data_001.json and the old file removed
migrate_old_json_file(fs) ==
    IF fs.old.exists /\ fs.old.ok /\ Len(fs.old.data) > 0
    THEN [fs EXCEPT !.json[1] = JsonFile(fs.old.data), !.old = Absent]
    ELSE fs

\* initialize_output_files, lines 484-489: the current shard is created empty
\* when it does not exist
InitCurrentJson(fs) ==
    LET current_json_file == get_current_json_file(fs)
    IN  IF ~fs.json[current_json_file].exists
        THEN [fs EXCEPT !.json[current_json_file] = JsonFile(<<>>)]
        ELSE fs

\* initialize_output_files, lines 516-539: a missing parquet is rebuilt, or
\* created empty; an existing one is rebuilt when it holds fewer than 90% of
\* the records counted in the shards
InitParquet(fs) ==
    LET total_records == Len(StoreRecords(fs))
    IN  IF ~fs.parquet.exists
        THEN TheOne({IF read_parquet_df(fs1) = <<>> THEN write_parquet_df(fs1, <<>>) ELSE fs1 :
                       fs1 \in {rebuild_parquet_from_json(fs)}})
        ELSE IF total_records > 0 /\ 10 * Len(read_parquet_df(fs)) < 9 * total_records
             THEN rebuild_parquet_from_json(fs)
             ELSE fs

\* initialize_output_files, lines 541-547: a missing checkpoint is created with page 0
InitCheckpoint(fs) == IF ~fs.ckpt.exists THEN save_page_checkpoint(fs, 0) ELSE fs

\* initialize_output_files: the migration, the current shard, the parquet and
\* the checkpoint, one after the other
initialize_output_files(fs) ==
    TheOne({InitCheckpoint(f3) :
              f3 \in {InitParquet(f2) :
                        f2 \in {InitCurrentJson(f1) : f1 \in {migrate_old_json_file(fs)}}}})

\* append_to_files, lines 560-569: the urls of the shards globbed at entry;
\* records without a url are not counted
ExistingUrls(fs, all_json_files) ==
    {r.url : r \in {x \in Range(ReadAll(fs, all_json_files, 1)) : x.url # ""}}

\* append_to_files, lines 571-582: rows with a url that is neither stored nor
\* earlier in the list, in input order
RECURSIVE FilterNewRows(_, _)
FilterNewRows(rows, existing_urls) ==
    IF rows = <<>> THEN <<>>
    ELSE LET row == Head(rows)
         IN  IF row.url # "" /\ row.url \notin existing_urls
             THEN <<Rec(row.url, row.h1, row.h2, row.content)>>
                  \o FilterNewRows(Tail(rows), existing_urls \cup {row.url})
             ELSE FilterNewRows(Tail(rows), existing_urls)

\* append_to_files, lines 603-609: the dry-run size of existing + new rows
\* reaches the ceiling
WouldOverflow(existing_data, new_rows) ==
    JsonSize(existing_data \o new_rows) >= MAX_JSON_FILE_SIZE

\* append_to_files, lines 588-601: the rows read from the current shard
ExistingData(fs) == ReadList(fs.json[get_current_json_file(fs)])

\* append_to_files, lines 609-615: on overflow a current shard that holds
\* records is rewritten with the records it already holds
SealShard(fs, new_rows) ==
    LET current_json_file == get_current_json_file(fs)
        existing_data == ExistingData(fs)
    IN  IF WouldOverflow(existing_data, new_rows) /\ existing_data # <<>>
        THEN [fs EXCEPT !.json[current_json_file] = JsonFile(existing_data)]
        ELSE fs

\* append_to_files, lines 589 and 618: the file the new rows go to; on
\* overflow get_current_json_file is asked again after the rewrite
AppendTarget(fs, new_rows) ==
    IF WouldOverflow(ExistingData(fs), new_rows)
    THEN get_current_json_file(SealShard(fs, new_rows))
    ELSE get_current_json_file(fs)

\* lines 619-623 without the reset of existing_data
UpdatedDataWithoutReset(fs, new_rows) == ExistingData(fs) \o new_rows

\* append_to_files, lines 619-623: on overflow existing_data is reset to []
UpdatedData(fs, new_rows) ==
    IF WouldOverflow(ExistingData(fs), new_rows)
    THEN new_rows
    ELSE ExistingData(fs) \o new_rows

\* append_to_files, lines 588-625: the shard write
WriteShard(fs, new_rows) ==
    [SealShard(fs, new_rows) EXCEPT
        !.json[AppendTarget(fs, new_rows)] = JsonFile(UpdatedData(fs, new_rows))]

\* append_to_files stopped inside the write of line 624, after open(.., "w")
\* truncated the file: the shard is left with n bytes of the dump
WriteShardTorn(fs, new_rows, n) ==
    [SealShard(fs, new_rows) EXCEPT !.json[AppendTarget(fs, new_rows)] = TornFile(n)]

\* append_to_files, lines 630-641: the parquet is extended only when it
\* already holds rows
UpdateParquet(fs, new_rows) ==
    LET old_df == read_parquet_df(fs)
        new_df == SelectSeq(new_rows, LAMBDA r : r.url \notin UrlSet(old_df))
    IN  IF old_df # <<>> /\ new_df # <<>>
        THEN write_parquet_df(fs, old_df \o new_df)
        ELSE fs

\* append_to_files: nothing is done for an empty list (552-554); the output
\* files are created when no shard exists (556-558); the rows are filtered
\* (560-582) and, when some remain, the shard and the parquet are written
append_to_files(fs, rows) ==
    IF rows = <<>> THEN fs
    ELSE TheOne({TheOne({IF new_rows = <<>> THEN fs1
                         ELSE TheOne({UpdateParquet(written, new_rows) :
                                         written \in {WriteShard(fs1, new_rows)}}) :
                    new_rows \in {FilterNewRows(rows, ExistingUrls(fs1, GlobJson(fs)))}}) :
            fs1 \in {IF GlobJson(fs) = {} THEN initialize_output_files(fs) ELSE fs}})

\* append_to_files that stops inside the write of line 624
append_to_files_torn(fs, rows, n) ==
    LET all_json_files == GlobJson(fs)
        fs1 == IF all_json_files = {} THEN initialize_output_files(fs) ELSE fs
        new_rows == FilterNewRows(rows, ExistingUrls(fs1, all_json_files))
    IN  WriteShardTorn(fs1, new_rows, n)

\* the rows append_to_files keeps for writing
NewRowsOf(fs, rows) ==
    LET all_json_files == GlobJson(fs)
        fs1 == IF all_json_files = {} THEN initialize_output_files(fs) ELSE fs
    IN  FilterNewRows(rows, ExistingUrls(fs1, all_json_files))

\* append_to_files, lines 556-558: the directory once the output files exist
Prepared(f) == IF GlobJson(f) = {} THEN initialize_output_files(f) ELSE f

\* append_to_files, line 609: the call reaches the shard write and takes the
\* branch of the full file
TakesFullBranch(fs, rows) ==
    LET all_json_files == GlobJson(fs)
        fs1 == IF all_json_files = {} THEN initialize_output_files(fs) ELSE fs
        new_rows == FilterNewRows(rows, ExistingUrls(fs1, all_json_files))
    IN  new_rows # <<>> /\ WouldOverflow(ExistingData(fs1), new_rows)

\* ------------------------------------------------------------------------
\* State
\* ------------------------------------------------------------------------

VARIABLES
    fs,        \* the data directory: shards, parquet, checkpoint, old json file
    pc,        \* where run_once stands: idle, phase1, phase2, done, aborted, killed
    processed, \* run_once: processed
    current_page,
    target_page,
    batch_urls,
    todo,      \* the urls of batch_urls the for loop of Phase 2 has not reached
    batch,
    successful_extractions,
    failed_extractions,
    link_fetches,   \* calls of extract_page_links in the run
    field_fetches,  \* calls of extract_url_data in the run
    op,        \* the name of the step taken last
    runs,      \* two runs of run_once at the grain of their file operations
    call,      \* the last page attempt made with extract_page_links
    merge      \* merge_json.py: the three input files and the output of one call

run == <<pc, processed, current_page, target_page, batch_urls, todo, batch,
         successful_extractions, failed_extractions, link_fetches, field_fetches>>

\* the variables only the specifications of their own section change
side == <<runs, call, merge>>

vars == <<fs, run, op, runs, call, merge>>

RunIds == {1, 2}

\* a run that has not started
IdleRun ==
    [pc |-> "idle", page |-> 0, target |-> 0, saved |-> 0,
     file |-> 0, data |-> <<>>, new_rows |-> <<>>, written |-> {}]

\* what one call of extract_page_links gave: the links returned, the
\* navigation attempts made, and whether the call raised
LinksResult(hrefs, attempts, raised) ==
    [hrefs |-> hrefs, attempts |-> attempts, raised |-> raised]

\* a call that was not made
NotCalled == LinksResult({}, 0, FALSE)

\* no page attempt made
NoCall ==
    [invocations |-> 0, outs1 |-> <<>>, outs2 |-> <<>>,
     first |-> NotCalled, second |-> NotCalled, hrefs |-> {}]

\* merge_json.py: a path that does not exist, a file holding a JSON list, a
\* file holding JSON that is not a list, a file json.load does not parse
MergeFile(kind, data) == [kind |-> kind, data |-> data]

AbsentFile == MergeFile("absent", <<>>)

\* merge_json.py: the output path has not been written
NotWritten == [written |-> FALSE, data |-> <<>>]

\* merge_json_files has not been called
NoMerge ==
    [called |-> FALSE, ours |-> AbsentFile, theirs |-> AbsentFile, base |-> AbsentFile,
     out |-> NotWritten]

\* the shard number MaxShardNo + 1 is kept free: a step that would create it
\* is not taken
Fits(f) == ~f.json[MaxShardNo + 1].exists

\* field values an entry page can yield: nothing, a short entry, a long entry
Fields == {<<"", "", "">>, <<"H1", "", "C">>, <<"dup", "", "CCCCCCCCC">>}

\* rows a caller can hand to append_to_files
RowSet ==
    {Rec(u, f[1], f[2], f[3]) : u \in Urls, f \in {<<"H1", "", "C">>, <<"dup", "", "CCCCCCCCC">>}}
    \cup {Rec("", "H1", "", "C")}

RowLists == UNION {[1..n -> RowSet] : n \in 1..MaxRows}

\* run_once has not started: its locals hold nothing
NoRun ==
    /\ processed = {}
    /\ current_page = 0
    /\ target_page = 0
    /\ batch_urls = {}
    /\ todo = {}
    /\ batch = <<>>
    /\ successful_extractions = 0
    /\ failed_extractions = 0
    /\ link_fetches = 0
    /\ field_fetches = 0

\* an empty data directory
Init ==
    /\ fs = EmptyDir
    /\ pc = "idle"
    /\ NoRun
    /\ op = "init"
    /\ runs = [i \in RunIds |-> IdleRun]
    /\ call = NoCall
    /\ merge = NoMerge

\* ------------------------------------------------------------------------
\* The record store called directly
\* ------------------------------------------------------------------------

\* the steps that are a completed call of append_to_files
AppendOps == {"append", "append_full"}

\* sizes of a shard whose dump was cut short
TornSizes == 0..MaxTornBytes

\* append_to_files(rows); the step is named after the branch of line 609
AppendCall(rows) ==
    /\ Fits(append_to_files(fs, rows))
    /\ fs' = append_to_files(fs, rows)
    /\ op' = IF TakesFullBranch(fs, rows) THEN "append_full" ELSE "append"
    /\ UNCHANGED side
    /\ UNCHANGED run

\* append_to_files(rows) with the process stopped inside the shard write
AppendTorn(rows, n) ==
    /\ NewRowsOf(fs, rows) # <<>>
    /\ Fits(append_to_files_torn(fs, rows, n))
    /\ fs' = append_to_files_torn(fs, rows, n)
    /\ op' = "append_torn"
    /\ UNCHANGED side
    /\ UNCHANGED run

\* rebuild_parquet_from_json()
RebuildCall ==
    /\ fs' = rebuild_parquet_from_json(fs)
    /\ op' = "rebuild"
    /\ UNCHANGED side
    /\ UNCHANGED run

\* initialize_output_files()
InitializeCall ==
    /\ Fits(initialize_output_files(fs))
    /\ fs' = initialize_output_files(fs)
    /\ op' = "initialize"
    /\ UNCHANGED side
    /\ UNCHANGED run

NextStore ==
    \/ \E rows \in RowLists : AppendCall(rows)
    \/ \E rows \in RowLists, n \in TornSizes : AppendTorn(rows, n)
    \/ RebuildCall
    \/ InitializeCall

SpecStore == Init /\ [][NextStore]_vars

\* the row lists whose dump is smaller than the ceiling
SmallRowLists == {rows \in RowLists : JsonSize(rows) < MAX_JSON_FILE_SIZE}

\* the record store called with batches smaller than the ceiling only
NextSmall ==
    \/ \E rows \in SmallRowLists : AppendCall(rows)
    \/ \E rows \in SmallRowLists, n \in TornSizes : AppendTorn(rows, n)
    \/ RebuildCall
    \/ InitializeCall

SpecSmall == Init /\ [][NextSmall]_vars

\* ------------------------------------------------------------------------
\* The checkpoint called directly, on any checkpoint file
\* ------------------------------------------------------------------------

\* the integers a checkpoint file can hold and save_page_checkpoint can be
\* called with: 0 as in initialize_output_files, and the pages around the crawl
StoredPages == {0} \cup ((START_PAGE - 3)..(MAX_PAGES + 2))

\* checkpoint files: none, one that is not a JSON object, an object without
\* last_page, a last_page that is not a number, and a stored integer
CheckpointFiles ==
    {NoCheckpoint,
     CheckpointFile(TRUE, FALSE, FALSE, FALSE, 0),
     CheckpointFile(TRUE, TRUE, FALSE, FALSE, 0),
     CheckpointFile(TRUE, TRUE, TRUE, FALSE, 0)}
    \cup {CheckpointFile(TRUE, TRUE, TRUE, TRUE, n) : n \in StoredPages}

InitCkpt ==
    /\ \E c \in CheckpointFiles : fs = [EmptyDir EXCEPT !.ckpt = c]
    /\ pc = "idle"
    /\ NoRun
    /\ op = "init"
    /\ runs = [i \in RunIds |-> IdleRun]
    /\ call = NoCall
    /\ merge = NoMerge

\* save_page_checkpoint(current_page), completed
SaveCall(page) ==
    /\ current_page' = page
    /\ fs' = save_page_checkpoint(fs, page)
    /\ op' = "save"
    /\ UNCHANGED side
    /\ UNCHANGED <<pc, processed, target_page, batch_urls, todo, batch,
                   successful_extractions, failed_extractions, link_fetches, field_fetches>>

\* save_page_checkpoint(current_page) with the process stopped inside it
SaveTorn(page) ==
    /\ current_page' = page
    /\ fs' = save_page_checkpoint_torn(fs)
    /\ op' = "save_torn"
    /\ UNCHANGED side
    /\ UNCHANGED <<pc, processed, target_page, batch_urls, todo, batch,
                   successful_extractions, failed_extractions, link_fetches, field_fetches>>

\* load_page_checkpoint(): the files stay as they are
LoadCall ==
    /\ op' = "load"
    /\ UNCHANGED side
    /\ UNCHANGED <<fs, run>>

NextCkpt ==
    \/ \E page \in StoredPages : SaveCall(page)
    \/ \E page \in StoredPages : SaveTorn(page)
    \/ LoadCall
    \/ InitializeCall

SpecCkpt == InitCkpt /\ [][NextCkpt]_vars

\* ------------------------------------------------------------------------
\* run_once
\* ------------------------------------------------------------------------

NotRunning == pc \in {"idle", "done", "aborted", "killed"}

\* the locals of a process that is gone
DropRun ==
    /\ processed' = {}
    /\ current_page' = 0
    /\ target_page' = 0
    /\ batch_urls' = {}
    /\ todo' = {}
    /\ batch' = <<>>
    /\ successful_extractions' = 0
    /\ failed_extractions' = 0
    /\ link_fetches' = 0
    /\ field_fetches' = 0

\* run_once, lines 767-775: initialize_output_files, then load_processed_urls
StartFiles(f) == TheOne({load_processed_urls_fs(g) : g \in {initialize_output_files(f)}})

\* run_once restarting at START_PAGE whatever the checkpoint holds
FirstPageIgnoringCheckpoint(f) == Max(START_PAGE, 1)

\* run_once, lines 786-787
FirstPage(f) == Max(load_page_checkpoint(f) + 1, 1)

\* run_once, lines 767-775, common to every start
Startup ==
    /\ NotRunning
    /\ Fits(StartFiles(fs))
    /\ fs' = StartFiles(fs)
    /\ processed' = load_processed_urls(initialize_output_files(fs))
    /\ batch_urls' = {}
    /\ todo' = {}
    /\ batch' = <<>>
    /\ successful_extractions' = 0
    /\ failed_extractions' = 0
    /\ link_fetches' = 0
    /\ field_fetches' = 0

\* run_once, line 778: create_driver raises and the run ends there
RunAbortAtStart ==
    /\ Startup
    /\ pc' = "aborted"
    /\ current_page' = 0
    /\ target_page' = 0
    /\ op' = "start_abort"
    /\ UNCHANGED side

\* run_once, lines 789-795: every page is done, the run returns
RunComplete ==
    /\ Startup
    /\ FirstPage(StartFiles(fs)) > MAX_PAGES
    /\ pc' = "done"
    /\ current_page' = FirstPage(StartFiles(fs))
    /\ target_page' = 0
    /\ op' = "complete"
    /\ UNCHANGED side

\* lines 797-802 with a range of PAGES_PER_RUN + 1 pages
RunStartOnePageMore ==
    /\ Startup
    /\ FirstPage(StartFiles(fs)) <= MAX_PAGES
    /\ pc' = "phase1"
    /\ current_page' = FirstPage(StartFiles(fs))
    /\ target_page' = Min(FirstPage(StartFiles(fs)) + PAGES_PER_RUN, MAX_PAGES)
    /\ op' = "start"
    /\ UNCHANGED side

\* run_once, lines 797-802: the page range of the run is fixed
RunStart ==
    /\ Startup
    /\ FirstPage(StartFiles(fs)) <= MAX_PAGES
    /\ pc' = "phase1"
    /\ current_page' = FirstPage(StartFiles(fs))
    /\ target_page' = Min(FirstPage(StartFiles(fs)) + PAGES_PER_RUN - 1, MAX_PAGES)
    /\ op' = "start"
    /\ UNCHANGED side

\* run_once, line 805: the while condition of Phase 1
MorePages == current_page <= target_page /\ current_page <= MAX_PAGES

\* lines 865-883 returning without Phase 2 whatever was collected
EndPhase1DroppingUrls ==
    /\ pc' = "done"
    /\ todo' = {}
    /\ UNCHANGED <<fs, processed, current_page, target_page, batch_urls, batch,
                   successful_extractions, failed_extractions, link_fetches, field_fetches>>

\* run_once, lines 865-883: Phase 1 is over; without urls the run returns
EndPhase1 ==
    /\ pc' = IF batch_urls = {} THEN "done" ELSE "phase2"
    /\ todo' = batch_urls
    /\ UNCHANGED <<fs, processed, current_page, target_page, batch_urls, batch,
                   successful_extractions, failed_extractions, link_fetches, field_fetches>>

\* run_once, line 805: the page range is exhausted
Phase1Exit ==
    /\ pc = "phase1"
    /\ ~MorePages
    /\ EndPhase1
    /\ op' = "phase1_exit"
    /\ UNCHANGED side

\* run_once, lines 807-810: the time check stops the collection
Phase1Timeout ==
    /\ pc = "phase1"
    /\ MorePages
    /\ EndPhase1
    /\ op' = "phase1_timeout"
    /\ UNCHANGED side

\* run_once, lines 824 and 842: create_driver raises before the first fetch
\* of the page, or before the retry after a first fetch without links
Phase1DriverFail(after_first) ==
    /\ pc = "phase1"
    /\ MorePages
    /\ pc' = "aborted"
    /\ link_fetches' = link_fetches + (IF after_first THEN 1 ELSE 0)
    /\ op' = "phase1_abort"
    /\ UNCHANGED side
    /\ UNCHANGED <<fs, processed, current_page, target_page, batch_urls, todo, batch,
                   successful_extractions, failed_extractions, field_fetches>>

\* lines 831-863 without the filter of line 853
Phase1PageUnfiltered(hrefs, retried) ==
    /\ pc = "phase1"
    /\ MorePages
    /\ hrefs # {}
    /\ batch_urls' = batch_urls \cup hrefs
    /\ fs' = save_page_checkpoint(fs, current_page)
    /\ current_page' = current_page + 1
    /\ link_fetches' = link_fetches + (IF retried THEN 2 ELSE 1)
    /\ op' = "page"
    /\ UNCHANGED side
    /\ UNCHANGED <<pc, processed, target_page, todo, batch,
                   successful_extractions, failed_extractions, field_fetches>>

\* run_once, lines 831-863: the page yields links, at once or on the retry;
\* the unseen ones join batch_urls and the checkpoint is saved
Phase1Page(hrefs, retried) ==
    /\ pc = "phase1"
    /\ MorePages
    /\ hrefs # {}
    /\ batch_urls' = batch_urls \cup ((hrefs \ processed) \ batch_urls)
    /\ fs' = save_page_checkpoint(fs, current_page)
    /\ current_page' = current_page + 1
    /\ link_fetches' = link_fetches + (IF retried THEN 2 ELSE 1)
    /\ op' = "page"
    /\ UNCHANGED side
    /\ UNCHANGED <<pc, processed, target_page, todo, batch,
                   successful_extractions, failed_extractions, field_fetches>>

\* lines 846-851 without the increment of current_page
Phase1PageFailedRepeating ==
    /\ pc = "phase1"
    /\ MorePages
    /\ current_page' = current_page
    /\ link_fetches' = link_fetches + 2
    /\ op' = "page_failed"
    /\ UNCHANGED side
    /\ UNCHANGED <<fs, pc, processed, target_page, batch_urls, todo, batch,
                   successful_extractions, failed_extractions, field_fetches>>

\* run_once, lines 834-851: no links on the first fetch and none on the
\* retry; the loop continues with the next page
Phase1PageFailed ==
    /\ pc = "phase1"
    /\ MorePages
    /\ current_page' = current_page + 1
    /\ link_fetches' = link_fetches + 2
    /\ op' = "page_failed"
    /\ UNCHANGED side
    /\ UNCHANGED <<fs, pc, processed, target_page, batch_urls, todo, batch,
                   successful_extractions, failed_extractions, field_fetches>>

\* line 908 taking every result as content
HasContentAlways(data) == TRUE

\* run_once, line 908
HasContent(data) == data.h1 # "" \/ data.h2 # "" \/ data.content # ""

\* run_once, lines 892-924: one url of batch_urls is extracted; a result with
\* content is buffered, and a full buffer is appended and cleared
Phase2Url(url, f) ==
    /\ pc = "phase2"
    /\ url \in todo
    /\ LET data == Rec(url, f[1], f[2], f[3])
           filled == IF HasContent(data) THEN Append(batch, data) ELSE batch
       IN  /\ successful_extractions' =
                  successful_extractions + (IF HasContent(data) THEN 1 ELSE 0)
           /\ failed_extractions' = failed_extractions + (IF HasContent(data) THEN 0 ELSE 1)
           /\ IF Len(filled) >= batch_size
              THEN /\ Fits(append_to_files(fs, filled))
                   /\ fs' = append_to_files(fs, filled)
                   /\ batch' = <<>>
              ELSE /\ fs' = fs
                   /\ batch' = filled
    /\ todo' = todo \ {url}
    /\ field_fetches' = field_fetches + 1
    /\ op' = "url"
    /\ UNCHANGED side
    /\ UNCHANGED <<pc, processed, current_page, target_page, batch_urls, link_fetches>>

\* run_once, lines 926-955: the rest of the buffer is appended and the run ends
FinalFlush ==
    /\ Fits(append_to_files(fs, batch))
    /\ fs' = append_to_files(fs, batch)
    /\ pc' = "done"
    /\ UNCHANGED <<processed, current_page, target_page, batch_urls, todo, batch,
                   successful_extractions, failed_extractions, link_fetches, field_fetches>>

\* run_once, line 885: the for loop has gone through batch_urls
Phase2End ==
    /\ pc = "phase2"
    /\ todo = {}
    /\ FinalFlush
    /\ op' = "phase2_end"
    /\ UNCHANGED side

\* run_once, lines 887-890: the time check stops the extraction
Phase2Timeout ==
    /\ pc = "phase2"
    /\ todo # {}
    /\ FinalFlush
    /\ op' = "phase2_timeout"
    /\ UNCHANGED side

\* line 902 with the buffer appended before the exception leaves run_once
Phase2DriverFailFlushing ==
    /\ pc = "phase2"
    /\ todo # {}
    /\ Fits(append_to_files(fs, batch))
    /\ fs' = append_to_files(fs, batch)
    /\ pc' = "aborted"
    /\ op' = "phase2_abort"
    /\ UNCHANGED side
    /\ UNCHANGED <<processed, current_page, target_page, batch_urls, todo, batch,
                   successful_extractions, failed_extractions, link_fetches, field_fetches>>

\* run_once, line 902: create_driver raises outside the try block
Phase2DriverFail ==
    /\ pc = "phase2"
    /\ todo # {}
    /\ pc' = "aborted"
    /\ op' = "phase2_abort"
    /\ UNCHANGED side
    /\ UNCHANGED <<fs, processed, current_page, target_page, batch_urls, todo, batch,
                   successful_extractions, failed_extractions, link_fetches, field_fetches>>

\* the process is stopped between two steps of run_once
Kill ==
    /\ pc \in {"phase1", "phase2"}
    /\ pc' = "killed"
    /\ DropRun
    /\ op' = "kill"
    /\ UNCHANGED side
    /\ UNCHANGED fs

Next ==
    \/ RunAbortAtStart
    \/ RunComplete
    \/ RunStart
    \/ Phase1Exit
    \/ Phase1Timeout
    \/ \E after_first \in BOOLEAN : Phase1DriverFail(after_first)
    \/ \E hrefs \in SUBSET Urls, retried \in BOOLEAN : Phase1Page(hrefs, retried)
    \/ Phase1PageFailed
    \/ \E url \in Urls, f \in Fields : Phase2Url(url, f)
    \/ Phase2End
    \/ Phase2Timeout
    \/ Phase2DriverFail
    \/ Kill

Spec == Init /\ [][Next]_vars

\* ------------------------------------------------------------------------
\* run_once with the process stopped inside a file write
\* ------------------------------------------------------------------------

\* the page yielded links and the process stops inside save_page_checkpoint
\* of line 857, after the file was opened for writing
CrashInSave ==
    /\ pc = "phase1"
    /\ MorePages
    /\ fs' = save_page_checkpoint_torn(fs)
    /\ pc' = "killed"
    /\ DropRun
    /\ op' = "crash_in_save"
    /\ UNCHANGED side

\* the process stops inside the shard write of the final append_to_files
CrashInFlush ==
    /\ pc = "phase2"
    /\ NewRowsOf(fs, batch) # <<>>
    /\ Fits(append_to_files_torn(fs, batch, 0))
    /\ fs' = append_to_files_torn(fs, batch, 0)
    /\ pc' = "killed"
    /\ DropRun
    /\ op' = "crash_in_flush"
    /\ UNCHANGED side

NextCrash ==
    \/ Next
    \/ CrashInSave
    \/ CrashInFlush

SpecCrash == Init /\ [][NextCrash]_vars

\* ------------------------------------------------------------------------
\* run_once with a shard write that fails
\* ------------------------------------------------------------------------

\* append_to_files raising at line 624: open(.., "w") raises and the shard is
\* as it was, or json.dump raises after the file was truncated
append_to_files_failed(f, rows, truncated) ==
    IF truncated THEN append_to_files_torn(f, rows, 0) ELSE Prepared(f)

\* run_once, lines 904-924: the url yields content, the buffer is full and
\* append_to_files raises inside the try block; the except clause of line 922
\* counts a failed extraction and the for loop goes on, the buffer as it was
Phase2UrlWriteFailed(url, f, truncated) ==
    /\ pc = "phase2"
    /\ url \in todo
    /\ LET data == Rec(url, f[1], f[2], f[3])
           filled == Append(batch, data)
       IN  /\ HasContent(data)
           /\ Len(filled) >= batch_size
           /\ NewRowsOf(fs, filled) # <<>>
           /\ Fits(append_to_files_failed(fs, filled, truncated))
           /\ fs' = append_to_files_failed(fs, filled, truncated)
           /\ batch' = filled
    /\ successful_extractions' = successful_extractions + 1
    /\ failed_extractions' = failed_extractions + 1
    /\ todo' = todo \ {url}
    /\ field_fetches' = field_fetches + 1
    /\ op' = "url_write_failed"
    /\ UNCHANGED side
    /\ UNCHANGED <<pc, processed, current_page, target_page, batch_urls, link_fetches>>

\* run_once, lines 927-928: append_to_files raises in the final flush, outside
\* any try block, and run_once ends with the exception
FinalFlushWriteFailed(truncated) ==
    /\ pc = "phase2"
    /\ NewRowsOf(fs, batch) # <<>>
    /\ Fits(append_to_files_failed(fs, batch, truncated))
    /\ fs' = append_to_files_failed(fs, batch, truncated)
    /\ pc' = "aborted"
    /\ op' = "flush_write_failed"
    /\ UNCHANGED side
    /\ UNCHANGED <<processed, current_page, target_page, batch_urls, todo, batch,
                   successful_extractions, failed_extractions, link_fetches, field_fetches>>

NextFail ==
    \/ Next
    \/ \E url \in Urls, f \in Fields, truncated \in BOOLEAN :
          Phase2UrlWriteFailed(url, f, truncated)
    \/ \E truncated \in BOOLEAN : FinalFlushWriteFailed(truncated)

SpecFail == Init /\ [][NextFail]_vars

\* ------------------------------------------------------------------------
\* Two runs of run_once on one data directory
\* ------------------------------------------------------------------------

\* the rows a run of this section appends: one short record
RaceRows(u) == <<Rec(u, "H1", "", "C")>>

\* run_once, lines 767-802, of run i: the files are initialized, the
\* checkpoint is read and the page range fixed
RaceStart(i) ==
    /\ runs[i].pc = "idle"
    /\ Fits(StartFiles(fs))
    /\ FirstPage(StartFiles(fs)) <= MAX_PAGES
    /\ fs' = StartFiles(fs)
    /\ runs' = [runs EXCEPT ![i] =
                   [IdleRun EXCEPT
                      !.pc = "phase1",
                      !.page = FirstPage(StartFiles(fs)),
                      !.target = Min(FirstPage(StartFiles(fs)) + PAGES_PER_RUN - 1, MAX_PAGES)]]
    /\ op' = "race_start"
    /\ UNCHANGED <<run, call, merge>>

\* lines 857-863 that write the page only when it is above the stored one
RaceSaveIfHigher(i) ==
    /\ runs[i].pc = "phase1"
    /\ runs[i].page <= runs[i].target
    /\ fs' = IF runs[i].page > load_page_checkpoint(fs)
             THEN save_page_checkpoint(fs, runs[i].page)
             ELSE fs
    /\ runs' = [runs EXCEPT ![i].saved = runs[i].page, ![i].page = runs[i].page + 1]
    /\ op' = "race_save"
    /\ UNCHANGED <<run, call, merge>>

\* run_once, lines 857-863, of run i: save_page_checkpoint(current_page)
RaceSave(i) ==
    /\ runs[i].pc = "phase1"
    /\ runs[i].page <= runs[i].target
    /\ fs' = save_page_checkpoint(fs, runs[i].page)
    /\ runs' = [runs EXCEPT ![i].saved = runs[i].page, ![i].page = runs[i].page + 1]
    /\ op' = "race_save"
    /\ UNCHANGED <<run, call, merge>>

\* run_once, lines 805-883, of run i: Phase 1 ends
RaceEndPhase1(i) ==
    /\ runs[i].pc = "phase1"
    /\ runs' = [runs EXCEPT ![i].pc = "phase2"]
    /\ op' = "race_end_phase1"
    /\ UNCHANGED <<fs, run, call, merge>>

\* append_to_files, lines 552-623, of run i: the shards are read, the new rows
\* filtered, the target file chosen and its content prepared
RaceRead(i, u) ==
    /\ runs[i].pc = "phase2"
    /\ LET f == Prepared(fs)
           new_rows == NewRowsOf(fs, RaceRows(u))
       IN  /\ new_rows # <<>>
           /\ Fits(WriteShard(f, new_rows))
           /\ fs' = SealShard(f, new_rows)
           /\ runs' = [runs EXCEPT ![i].pc = "writing",
                                   ![i].file = AppendTarget(f, new_rows),
                                   ![i].data = UpdatedData(f, new_rows),
                                   ![i].new_rows = new_rows]
    /\ op' = "race_read"
    /\ UNCHANGED <<run, call, merge>>

\* append_to_files, lines 624-641, of run i: the prepared content is dumped
\* into the target file and the parquet updated
RaceWrite(i) ==
    /\ runs[i].pc = "writing"
    /\ fs' = UpdateParquet([fs EXCEPT !.json[runs[i].file] = JsonFile(runs[i].data)],
                           runs[i].new_rows)
    /\ runs' = [runs EXCEPT ![i].pc = "done",
                            ![i].written = runs[i].written \cup UrlSet(runs[i].new_rows)]
    /\ op' = "race_write"
    /\ UNCHANGED <<run, call, merge>>

NextRace ==
    \E i \in RunIds :
        \/ RaceStart(i)
        \/ RaceSave(i)
        \/ RaceEndPhase1(i)
        \/ \E u \in Urls : RaceRead(i, u)
        \/ RaceWrite(i)

SpecRace == Init /\ [][NextRace]_vars

\* ------------------------------------------------------------------------
\* Runs scheduled one after the other, none ended by an exception
\* ------------------------------------------------------------------------

\* run_once, lines 807-810, in a run whose time budget was enough to attempt
\* a page: the time check stops the collection after at least one attempt
Phase1TimeoutAfterPage ==
    /\ link_fetches >= 1
    /\ Phase1Timeout

\* the steps of run_once without create_driver raising and without the
\* process being stopped
NextLive ==
    \/ RunComplete
    \/ RunStart
    \/ Phase1Exit
    \/ Phase1TimeoutAfterPage
    \/ \E hrefs \in SUBSET Urls, retried \in BOOLEAN : Phase1Page(hrefs, retried)
    \/ Phase1PageFailed
    \/ \E url \in Urls, f \in Fields : Phase2Url(url, f)
    \/ Phase2End
    \/ Phase2Timeout

\* every step of run_once ends, and the scheduler (the workflow around
\* __main__, lines 958-959) starts the next run when one has ended
SpecLive == Init /\ [][NextLive]_vars /\ WF_vars(NextLive)

\* ------------------------------------------------------------------------
\* One page attempt of Phase 1 with extract_page_links
\* ------------------------------------------------------------------------

\* what one navigation attempt of extract_page_links meets: the list with
\* links, the list without a link that passes the filter of line 696, a
\* TimeoutException, another exception
AttemptOutcomes == {"links", "empty", "timeout", "error"}

\* the outcomes of the attempts a call can make
OutcomeLists == [1..max_retries -> AttemptOutcomes]

\* the attempts of outs that return instead of raising
Returning(outs) == {k \in 1..max_retries : outs[k] \in {"links", "empty"}}

\* the least number of a non-empty set of attempts
FirstOf(S) == CHOOSE k \in S : \A m \in S : k <= m

\* extract_page_links raising when its attempts are exhausted
extract_page_links_raising(outs, links) ==
    IF Returning(outs) = {}
    THEN LinksResult({}, max_retries, TRUE)
    ELSE LinksResult(IF outs[FirstOf(Returning(outs))] = "links" THEN links ELSE {},
                     FirstOf(Returning(outs)), FALSE)

\* extract_page_links, lines 659-714: the attempts are made in order; one that
\* raises is logged and followed by the next, the first that does not raise
\* returns its links; after max_retries attempts the call returns []
extract_page_links(outs, links) ==
    IF Returning(outs) = {}
    THEN LinksResult({}, max_retries, FALSE)
    ELSE LinksResult(IF outs[FirstOf(Returning(outs))] = "links" THEN links ELSE {},
                     FirstOf(Returning(outs)), FALSE)

\* run_once, lines 830-851: the page is fetched, and fetched once more when
\* the first call returned no links
PageAttempt(outs1, outs2, links) ==
    /\ call = NoCall
    /\ LET first == extract_page_links(outs1, links)
           retry == first.hrefs = {} /\ ~first.raised
           second == IF retry THEN extract_page_links(outs2, links) ELSE NotCalled
       IN  call' = [invocations |-> IF retry THEN 2 ELSE 1,
                    outs1 |-> outs1, outs2 |-> outs2,
                    first |-> first, second |-> second,
                    hrefs |-> IF retry THEN second.hrefs ELSE first.hrefs]
    /\ op' = "page_attempt"
    /\ UNCHANGED <<fs, run, runs, merge>>

\* the links a page of the glossary can hold
PageLinks == {{u} : u \in Urls} \cup {Urls}

NextLinks ==
    \E outs1, outs2 \in OutcomeLists, links \in PageLinks :
        PageAttempt(outs1, outs2, links)

SpecLinks == Init /\ [][NextLinks]_vars

\* ------------------------------------------------------------------------
\* merge_json.py: the merge driver for the shard files
\* ------------------------------------------------------------------------

\* the records of the files to merge: with and without a url (a record
\* without the key reads as "" at line 42), two records for one url
MergeRecords == {Rec(u, h, "", "C") : u \in {"", "a", "b"}, h \in {"H1", "dup"}}

MergeLists == UNION {[1..n -> MergeRecords] : n \in 0..MaxMergeLen}

\* the files ours and theirs can be
MergeFiles ==
    {MergeFile("list", l) : l \in MergeLists}
    \cup {AbsentFile, MergeFile("other", <<>>), MergeFile("corrupt", <<>>)}

\* the files base can be
BaseFiles ==
    {AbsentFile, MergeFile("list", <<>>), MergeFile("list", <<Rec("a", "base", "", "C")>>),
     MergeFile("other", <<>>), MergeFile("corrupt", <<>>)}

\* merge_json_files, lines 17-21, 23-27, 29-33: [] for a missing path and for
\* JSON that is not a list
LoadList(file) == IF file.kind = "list" THEN file.data ELSE <<>>

\* json.load of lines 19, 25, 31 raises on a file that does not parse
LoadRaises(file) == file.kind = "corrupt"

\* merge_json_files, lines 39-45: the first record of every non-empty url
RECURSIVE KeepFirstByUrl(_, _)
KeepFirstByUrl(all_records, seen_urls) ==
    IF all_records = <<>> THEN <<>>
    ELSE LET record == Head(all_records)
         IN  IF record.url # "" /\ record.url \notin seen_urls
             THEN <<record>> \o KeepFirstByUrl(Tail(all_records), seen_urls \cup {record.url})
             ELSE KeepFirstByUrl(Tail(all_records), seen_urls)

\* merge_json_files: the three files are loaded, ours + theirs is reduced to
\* the first record of every url and written to the output path; a load that
\* raises ends the call before line 48
merge_json_files(ours, theirs, base) ==
    IF LoadRaises(ours) \/ LoadRaises(theirs) \/ LoadRaises(base)
    THEN NotWritten
    ELSE [written |-> TRUE, data |-> KeepFirstByUrl(LoadList(ours) \o LoadList(theirs), {})]

\* the files the merge driver is called on
InitMerge ==
    /\ fs = EmptyDir
    /\ pc = "idle"
    /\ NoRun
    /\ op = "init"
    /\ runs = [i \in RunIds |-> IdleRun]
    /\ call = NoCall
    /\ \E ours, theirs \in MergeFiles, base \in BaseFiles :
          merge = [NoMerge EXCEPT !.ours = ours, !.theirs = theirs, !.base = base]

\* merge_json_files(ours_path, theirs_path, base_path, output_path)
MergeCall ==
    /\ ~merge.called
    /\ merge' = [merge EXCEPT !.called = TRUE,
                              !.out = merge_json_files(merge.ours, merge.theirs, merge.base)]
    /\ op' = "merge"
    /\ UNCHANGED <<fs, run, runs, call>>

NextMerge == MergeCall

SpecMerge == InitMerge /\ [][NextMerge]_vars

\* ------------------------------------------------------------------------
\* Claims about the record store
\* ------------------------------------------------------------------------

\* no two records of the readable shards share a url
NoDuplicateUrl(f) ==
    LET recs == StoreRecords(f)
    IN  \A i, j \in 1..Len(recs) : i # j => recs[i].url # recs[j].url

\* the records of the store that carry url u
RecordsFor(f, u) == {r \in Range(StoreRecords(f)) : r.url = u}

\* the first row of rows that carries url u
FirstRow(rows, u) ==
    LET i == CHOOSE k \in 1..Len(rows) :
                 rows[k].url = u /\ \A m \in 1..(k - 1) : rows[m].url # u
    IN  rows[i]

\* C1: every record that is in the record store before a call of
\* append_to_files is still in the record store after the call, also when the
\* current shard plus the new records reaches the size ceiling.
C1_AppendKeepsEveryRecord ==
    [][op' \in AppendOps =>
          \A r \in Range(StoreRecords(fs)) : r \in Range(StoreRecords(fs'))]_vars

\* C11: a completed append_to_files and a rebuild_parquet_from_json leave
\* every shard file that does not parse as it is, the shard append_to_files
\* selects for writing included.
C11_UnparseableShardUntouched ==
    [][op' \in AppendOps \cup {"rebuild"} =>
          \A n \in ShardNos :
              fs.json[n].exists /\ ~fs.json[n].ok => fs'.json[n] = fs.json[n]]_vars

\* C2: when the current shard holds records and the append would bring it to
\* or over the ceiling, the current shard keeps its record sequence and the
\* new records go to a new shard with the next higher number; a shard below
\* the one being written is never written again.
C2_OverflowSealsAndOpensNextShard ==
    [][\A rows \in RowLists :
          AppendCall(rows) =>
              LET f == Prepared(fs)
                  cur == get_current_json_file(f)
                  new_rows == NewRowsOf(fs, rows)
              IN  /\ \A n \in ShardNos : n < cur => fs'.json[n] = f.json[n]
                  /\ (new_rows # <<>> /\ ExistingData(f) # <<>>
                        /\ WouldOverflow(ExistingData(f), new_rows))
                     => /\ fs'.json[cur].data = ExistingData(f)
                        /\ fs'.json[cur + 1] = JsonFile(new_rows)]_vars

\* C3: appends keep the urls of the store unique, and the record written first
\* for a url wins: a stored record whose url comes again in a batch stays as
\* it is and is the only record with that url, and of several new rows with
\* one url the first is the one stored.
C3_UniqueUrlFirstWriteWins ==
    [][\A rows \in RowLists :
          AppendCall(rows) =>
              /\ NoDuplicateUrl(fs) => NoDuplicateUrl(fs')
              /\ \A u \in UrlSet(rows) \ {""} :
                    IF RecordsFor(fs, u) # {}
                    THEN RecordsFor(fs', u) = RecordsFor(fs, u)
                    ELSE RecordsFor(fs', u) = {FirstRow(rows, u)}]_vars

\* C4: a second call of append_to_files with the same rows leaves every shard
\* as the first call left it.
C4_AppendIdempotent ==
    [][\A rows \in RowLists :
          AppendCall(rows) => append_to_files(fs', rows).json = fs'.json]_vars

\* the shards that are not the one get_current_json_file selects
SealedShards(f) == GlobJson(f) \ {get_current_json_file(f)}

NewlyWritten == Range(StoreRecords(fs')) \ Range(StoreRecords(fs))

\* C17: after a completed append_to_files the index holds the url of every
\* record the call wrote, whatever the index held before, an empty or
\* unreadable index included.
C17_AppendUpdatesIndex ==
    [][op' \in AppendOps =>
          \A r \in NewlyWritten : r.url \in UrlSet(read_parquet_df(fs'))]_vars

\* every url of the index is the url of a record of the shards
IndexWithinStore(f) == UrlSet(read_parquet_df(f)) \subseteq UrlSet(StoreRecords(f))

\* C18: appends and rebuilds keep the index within the store: after a
\* completed append_to_files or rebuild_parquet_from_json that starts with
\* every index url in the shards, every index url is in the shards.
C18_IndexDerivedFromStore ==
    [][op' \in AppendOps \cup {"rebuild"} /\ IndexWithinStore(fs) =>
          IndexWithinStore(fs')]_vars

\* some shard file does not parse
SomeShardUnreadable(f) == \E n \in ShardNos : f.json[n].exists /\ ~f.json[n].ok

\* C19: with shards that do not parse, rebuild_parquet_from_json completes,
\* leaves those shards out, and the index holds exactly the urls of the
\* records of the readable shards.
C19_RebuildSkipsUnreadableShards ==
    [][op' = "rebuild" /\ SomeShardUnreadable(fs) =>
          UrlSet(read_parquet_df(fs')) = UrlSet(StoreRecords(fs'))]_vars

\* C9: after rebuild_parquet_from_json the index holds a url exactly when a
\* record of the shards has it, whatever the index held before.
C9_RebuildIndexMatchesShards ==
    [][op' = "rebuild" =>
          UrlSet(read_parquet_df(fs')) = UrlSet(StoreRecords(fs'))]_vars

\* ------------------------------------------------------------------------
\* Claims about the checkpoint and the controller
\* ------------------------------------------------------------------------

\* the checkpoint file save_page_checkpoint(page) leaves
Saved(page) == CheckpointFile(TRUE, TRUE, TRUE, TRUE, page)

\* C5: every page attempt of Phase 1, with links or failed on the fetch and
\* on the retry, ends with the checkpoint saved with that page, before the
\* next page is attempted.
C5_SaveAfterEveryPageAttempt ==
    [][op' \in {"page", "page_failed"} => fs'.ckpt = Saved(current_page)]_vars

\* C6: over runs and restarts between completed saves the value
\* load_page_checkpoint returns never decreases, and it is the page saved
\* last: a save sets it to the page saved, every other step keeps it.
C6_CheckpointMonotone ==
    [][IF op' = "page"
       THEN /\ load_page_checkpoint(fs') = current_page
            /\ load_page_checkpoint(fs') >= load_page_checkpoint(fs)
       ELSE load_page_checkpoint(fs') = load_page_checkpoint(fs)]_vars

\* C6, its case: a run started after a restart resumes behind a page an
\* earlier run saved
C6_Witness ==
    /\ op = "start"
    /\ fs.ckpt.last_page >= START_PAGE
    /\ current_page = fs.ckpt.last_page + 1

\* C7: when the process stops inside save_page_checkpoint(p), the next load
\* returns the value saved before or p, never a smaller one.
C7_CrashInSaveKeepsCheckpoint ==
    [][op' = "crash_in_save" =>
          load_page_checkpoint(fs') \in {load_page_checkpoint(fs), current_page}]_vars

\* C8: a run that finds the checkpoint at MAX_PAGES or beyond fetches no
\* links and no fields and leaves the checkpoint, every shard, the set of
\* shards and the index as they were.
C8_TerminalRunChangesNothing ==
    [][op' = "complete" /\ load_page_checkpoint(fs) >= MAX_PAGES =>
          /\ fs' = fs
          /\ link_fetches' = 0
          /\ field_fetches' = 0]_vars

\* the index is missing, empty, under the small-size threshold, or holds
\* fewer than 90% of the records counted in the shards
SuspectIndex(f) ==
    \/ ~f.parquet.exists
    \/ LooksSmall(read_parquet_df(f))
    \/ 10 * Len(read_parquet_df(f)) < 9 * Len(StoreRecords(f))

\* C10: a run that starts with such an index does not use it as it is: the
\* processed urls it loads are the urls of the records of the readable shards.
C10_SuspectIndexRebuiltBeforeUse ==
    [][op' \in {"start", "complete", "start_abort"} /\ SuspectIndex(fs) =>
          processed' = UrlSet(StoreRecords(fs'))]_vars

\* C12: a shard write that fails in a flush of Phase 2, in the flush of a full
\* buffer as in the final flush, ends the run with the error: the run is
\* aborted and goes on to no further url.
C12_FailedShardWriteAbortsRun ==
    [][op' \in {"url_write_failed", "flush_write_failed"} => pc' = "aborted"]_vars

\* the checkpoint file holds an integer under last_page
UsablePage(c) == c.exists /\ c.ok /\ c.has_page /\ c.is_int

\* C14: load_page_checkpoint returns an integer for every checkpoint file;
\* it returns START_PAGE - 1 when the file is absent, does not parse, or
\* holds no usable last_page, and also when the stored page is below
\* START_PAGE - 1.
C14_LoadDefaultsToStartMinusOne ==
    /\ load_page_checkpoint(fs) \in Int
    /\ ~UsablePage(fs.ckpt) => load_page_checkpoint(fs) = START_PAGE - 1
    /\ UsablePage(fs.ckpt) /\ fs.ckpt.last_page < START_PAGE - 1
          => load_page_checkpoint(fs) = START_PAGE - 1

\* C14, its case: load_page_checkpoint is called on a file that stores a
\* page below START_PAGE - 1
C14_Witness ==
    /\ op = "load"
    /\ UsablePage(fs.ckpt)
    /\ fs.ckpt.last_page < START_PAGE - 1

\* C15: load_page_checkpoint after a completed save_page_checkpoint(p) with p
\* in START_PAGE..MAX_PAGES returns p; without a checkpoint file it returns
\* 6018, and after save_page_checkpoint(6019) it returns 6019.
C15_CheckpointRoundTrip ==
    [][/\ op' = "save" /\ current_page' \in START_PAGE..MAX_PAGES
             => load_page_checkpoint(fs') = current_page'
       /\ ~fs.ckpt.exists => load_page_checkpoint(fs) = 6018
       /\ op' = "save" /\ current_page' = 6019 => load_page_checkpoint(fs') = 6019]_vars

\* C15, its case: save_page_checkpoint(6019) completed on a directory that
\* had no checkpoint file, and load_page_checkpoint is called
C15_Witness ==
    /\ op = "load"
    /\ current_page = 6019
    /\ fs.ckpt = Saved(6019)
    /\ GlobJson(fs) = {}

\* C16: when Phase 2 ends, by the url set running out, by the time check or
\* by create_driver failing before a later url, every record still in the
\* buffer is in the record store.
C16_Phase2EndFlushesBuffer ==
    [][op' \in {"phase2_end", "phase2_timeout", "phase2_abort"} =>
          \A i \in 1..Len(batch) : batch[i].url \in UrlSet(StoreRecords(fs'))]_vars

\* C20: a run starts Phase 1 at checkpoint + 1 with the range ending at
\* min(checkpoint + PAGES_PER_RUN, MAX_PAGES); every page attempt is inside
\* the range and the next attempt is one page further; the page saved is at
\* most MAX_PAGES and above the checkpoint.
C20_Phase1PageRange ==
    [][/\ op' = "start" =>
              /\ current_page' = load_page_checkpoint(fs') + 1
              /\ target_page' = Min(load_page_checkpoint(fs') + PAGES_PER_RUN, MAX_PAGES)
       /\ op' \in {"page", "page_failed"} =>
              /\ current_page <= target_page
              /\ current_page <= MAX_PAGES
              /\ current_page > load_page_checkpoint(fs)
              /\ current_page' = current_page + 1
              /\ target_page' = target_page
       /\ op' = "page" =>
              /\ fs'.ckpt = Saved(current_page)
              /\ fs'.ckpt.last_page <= MAX_PAGES
              /\ fs'.ckpt.last_page > load_page_checkpoint(fs)]_vars

\* C20, its case: a run whose range ends at MAX_PAGES has attempted and saved
\* its last page
C20_Witness ==
    /\ op = "page"
    /\ target_page = MAX_PAGES
    /\ current_page = MAX_PAGES + 1
    /\ fs.ckpt = Saved(MAX_PAGES)

\* C21: the urls collected by Phase 1 are never urls of the index loaded at
\* the start of the run; Phase 2 extracts a url of batch_urls that it has not
\* extracted before in the run, so each url at most once, and never a url of
\* the loaded index.
C21_OnlyUnseenLinks ==
    [][/\ batch_urls' \cap processed' = {}
       /\ todo' \subseteq batch_urls'
       /\ op' = "url" =>
              /\ \E u \in todo : todo' = todo \ {u} /\ u \notin processed
              /\ field_fetches' = field_fetches + 1
              /\ field_fetches' = Cardinality(batch_urls' \ todo')]_vars

\* C21, its case: a run that loaded a non-empty index has collected urls and
\* extracted one
C21_Witness ==
    /\ op = "url"
    /\ processed # {}
    /\ batch_urls # {}
    /\ field_fetches >= 1

\* at least one of h1, h2, content is not empty
NonEmptyRecord(r) == ~(r.h1 = "" /\ r.h2 = "" /\ r.content = "")

StartOps == {"start", "complete", "start_abort"}

\* C24: a run that finds no checkpoint file creates it holding START_PAGE - 1.
C24_CheckpointCreatedAtStartMinusOne ==
    [][op' \in StartOps /\ ~fs.ckpt.exists => fs'.ckpt = Saved(START_PAGE - 1)]_vars

\* C25: when create_driver fails, at the start of the run, before a page,
\* before the retry of a page or before a url, the run is aborted there:
\* after a failure inside a phase the files are as they were and no fetch
\* follows the failure; after a failure at the start nothing was fetched, no
\* page was saved and no record written; the next step is the start of
\* another run.
C25_DriverFailureAbortsRun ==
    [][/\ op' \in {"phase1_abort", "phase2_abort"} =>
              /\ pc' = "aborted"
              /\ fs' = fs
              /\ link_fetches' \in {link_fetches, link_fetches + 1}
              /\ op' = "phase2_abort" => link_fetches' = link_fetches
              /\ field_fetches' = field_fetches
       /\ op' = "start_abort" =>
              /\ pc' = "aborted"
              /\ link_fetches' = 0 /\ field_fetches' = 0
              /\ load_page_checkpoint(fs') = load_page_checkpoint(fs)
              /\ StoreRecords(fs') = StoreRecords(fs)
       /\ pc = "aborted" => op' \in StartOps]_vars

\* C25, its case: create_driver failed before a url of Phase 2 while the
\* buffer held a record, and the record is in no shard
C25_Witness ==
    /\ op = "phase2_abort"
    /\ pc = "aborted"
    /\ batch # <<>>
    /\ \E i \in 1..Len(batch) : batch[i].url \notin UrlSet(StoreRecords(fs))

\* C30: at the start of every iteration of Phase 2 the buffer holds fewer
\* than batch_size records, and when Phase 2 ends every record of the buffer
\* has been passed to append_to_files: the final flush hands the buffer over,
\* and an end without the final flush leaves no record in the buffer.
C30_BufferFlushedAtBatchSize ==
    [][/\ pc' = "phase2" => Len(batch') < batch_size
       /\ op' \in {"phase2_end", "phase2_timeout"} => fs' = append_to_files(fs, batch)
       /\ op' = "phase2_abort" => batch' = <<>>]_vars

\* C26: nothing holds a run back for the other run: a save of a page by a run
\* replaces the checkpoint whatever the other run saved in between, and the
\* shard write of a run replaces the shard with the content the run prepared
\* from what it read, whatever the other run wrote in between.
C26_NoLockBetweenRuns ==
    [][\A i \in RunIds :
          /\ op' = "race_save" /\ runs'[i] # runs[i]
                => fs'.ckpt = Saved(runs[i].page)
          /\ op' = "race_write" /\ runs'[i] # runs[i]
                => fs'.json[runs[i].file] = JsonFile(runs[i].data)]_vars

\* C26, its case: the checkpoint is below a page a run saved, and a record a
\* run wrote to a shard is in no shard
C26_Witness ==
    /\ \E i \in RunIds : runs[i].saved > load_page_checkpoint(fs)
    /\ \E i \in RunIds :
          \E u \in runs[i].written : u \notin UrlSet(StoreRecords(fs))

\* C29: a page attempt calls extract_page_links once or twice, twice exactly
\* when the first call returned no links; each call makes at most max_retries
\* navigation attempts, does not raise, and returns no links when every
\* attempt raised.
C29_LinkFetchAtMostTwice ==
    call # NoCall =>
        /\ call.invocations \in {1, 2}
        /\ call.invocations = 2 <=> call.first.hrefs = {}
        /\ call.invocations = 1 => call.second = NotCalled
        /\ \A r \in {call.first, call.second} :
              r.attempts <= max_retries /\ ~r.raised
        /\ Returning(call.outs1) = {} =>
              call.first = LinksResult({}, max_retries, FALSE)
        /\ call.invocations = 2 /\ Returning(call.outs2) = {} =>
              call.second = LinksResult({}, max_retries, FALSE)

\* C29, its case: every navigation attempt of the first call and of the
\* retry raised
C29_Witness ==
    /\ op = "page_attempt"
    /\ call.invocations = 2
    /\ Returning(call.outs1) = {} /\ Returning(call.outs2) = {}
    /\ call.first.attempts = max_retries /\ call.second.attempts = max_retries
    /\ call.hrefs = {}

\* C27: when every run can attempt at least one page and none is ended by an
\* exception, the checkpoint eventually reaches MAX_PAGES, whatever the page
\* fetches return.
C27_CheckpointReachesMaxPage == <>(load_page_checkpoint(fs) >= MAX_PAGES)

\* url was passed to extract_url_data in the current run
Extracted(url) == pc \in {"phase2", "done"} /\ url \in batch_urls \ todo

\* C28: every url put into batch_urls by Phase 1 is passed to
\* extract_url_data, in that run or in a later one.
C28_CollectedUrlIsExtracted ==
    \A url \in Urls : (pc = "phase1" /\ url \in batch_urls) ~> Extracted(url)

\* C31: when Phase 2 is over, every url passed to extract_url_data was
\* counted once, as a successful or as a failed extraction: the two counters
\* add up to the number of urls attempted.
C31_CountersAddUpToAttempts ==
    pc = "done" => successful_extractions + failed_extractions = field_fetches

\* C33: append_to_files writes no record without a url; a call whose rows are
\* all without a url or all stored already leaves every shard file and the
\* index as they were; a shard the call writes holds the records it held
\* before, then the new records in input order.
C33_AppendFrame ==
    [][\A rows \in RowLists :
          AppendCall(rows) =>
              LET new_rows == NewRowsOf(fs, rows)
              IN  /\ \A r \in NewlyWritten : r.url # ""
                  /\ new_rows = <<>> => fs'.json = fs.json /\ fs'.parquet = fs.parquet
                  /\ \A n \in ShardNos :
                        fs'.json[n].data # ReadList(fs.json[n])
                            => fs'.json[n].data = ReadList(fs.json[n]) \o new_rows]_vars

\* the condition under which FinalFlush, the step out of the Phase 2 loop,
\* can be taken
FinalFlushEnabled == Fits(append_to_files(fs, batch))

\* the states a run can be in after the step it takes from pc
LaterStages(stage) ==
    IF stage = "phase1" THEN {"phase1", "phase2", "done", "aborted", "killed"}
    ELSE IF stage = "phase2" THEN {"phase2", "done", "aborted", "killed"}
    ELSE {"phase1", "done", "aborted", "killed"}

\* C32: a run is given at most PAGES_PER_RUN pages; every iteration of the
\* Phase 1 loop moves to the next page and every iteration of the Phase 2
\* loop takes one url out of those left, so no page and no url is repeated;
\* a run never goes back to an earlier phase, and when a loop has nothing
\* left the run leaves it for the next phase or its end.
C32_RunTerminates ==
    [][/\ pc' \in LaterStages(pc)
       /\ op' = "start" => target_page' + 1 - current_page' \in 1..PAGES_PER_RUN
       /\ pc = "phase1" /\ pc' = "phase1" =>
              /\ current_page <= target_page
              /\ current_page' = current_page + 1
              /\ target_page' = target_page
       /\ pc = "phase1" /\ pc' = "phase2" => todo' = batch_urls /\ field_fetches' = 0
       /\ pc = "phase2" /\ pc' = "phase2" =>
              /\ \E url \in todo : todo' = todo \ {url}
              /\ batch_urls' = batch_urls
              /\ field_fetches' = field_fetches + 1
       /\ pc = "phase1" /\ ~MorePages => ENABLED Phase1Exit
       /\ pc = "phase2" /\ todo = {} => FinalFlushEnabled
       /\ pc' = "phase2" => field_fetches' + Cardinality(todo') = Cardinality(batch_urls')]_vars

\* C32, its case: a run went through PAGES_PER_RUN pages, one of them
\* fetched twice, and through every url it collected, and reached its end
C32_Witness ==
    /\ pc = "done"
    /\ op = "phase2_end"
    /\ current_page = START_PAGE + PAGES_PER_RUN
    /\ target_page = START_PAGE + PAGES_PER_RUN - 1
    /\ link_fetches > PAGES_PER_RUN
    /\ Cardinality(batch_urls) > 1
    /\ field_fetches = Cardinality(batch_urls)

\* the position of the first record with url in a list of records
FirstWithUrl(records, url) ==
    CHOOSE k \in 1..Len(records) :
        records[k].url = url /\ \A m \in 1..(k - 1) : records[m].url # url

\* C34: for record lists ours and theirs, the output of merge_json_files
\* holds no two records with one url and no record without a url, holds for
\* every non-empty url of ours + theirs the first record with that url, and
\* is the same whatever the base file holds.
C34_MergeKeepsFirstPerUrl ==
    (merge.called /\ merge.ours.kind = "list" /\ merge.theirs.kind = "list") =>
        LET all_records == merge.ours.data \o merge.theirs.data
            merged_data == merge.out.data
        IN  /\ merge.out.written
            /\ \A i, j \in 1..Len(merged_data) :
                  merged_data[i].url = merged_data[j].url => i = j
            /\ \A i \in 1..Len(merged_data) : merged_data[i].url # ""
            /\ \A url \in UrlSet(all_records) \ {""} :
                  \E i \in 1..Len(merged_data) :
                      merged_data[i] = all_records[FirstWithUrl(all_records, url)]
            /\ merge.out = merge_json_files(merge.ours, merge.theirs, AbsentFile)

====
